---- MODULE Spec2Model ----
(***************************************************************************)
(* A model of GetSysUUID.py: the GetSysUUID object (platform dispatch,     *)
(* dmidecode / ioreg text scraping, the win32 firmware-table path) and the *)
(* ParseSMBIOSTable walker and Type 1 decoder.                             *)
(*                                                                         *)
(* Python strings are sequences: a byte string is a sequence of 0..255, a  *)
(* text string a sequence of one-character strings.  Python indices are    *)
(* 0-based, TLA+ sequences 1-based: s[i] in the source is s[i + 1] here.   *)
(* The print statements of __call__ write to stdout only and are left out. *)
(***************************************************************************)
EXTENDS Integers, Sequences, FiniteSets, TLC

\* ------------------------------------------------------------------------
\* Bounds of the model
\* ------------------------------------------------------------------------
MaxLen     == 6   \* longest arbitrary (possibly malformed) table
MaxStructs == 2   \* most structures concatenated into a well-formed table
MaxLines   == 2   \* most lines printed by dmidecode / ioreg
MaxCalls   == 2   \* most calls made on the objects in one behaviour

\* ------------------------------------------------------------------------
\* Python primitives used by the source
\* ------------------------------------------------------------------------
Min(a, b) == IF a < b THEN a ELSE b

\* s[a:b] with 0 <= a: a slice never raises, it is cut at the end of s
PySlice(s, a, b) ==
    IF a >= Min(b, Len(s)) THEN << >> ELSE SubSeq(s, a + 1, Min(b, Len(s)))

\* s[a:]
PyFrom(s, a) == PySlice(s, a, Len(s))

\* s.find(sub): lowest 0-based index where sub occurs in s, -1 when absent
PyFind(s, sub) ==
    LET hits == { i \in 0..(Len(s) - Len(sub)) : PySlice(s, i, i + Len(sub)) = sub }
    IN  IF hits = {} THEN -1 ELSE CHOOSE i \in hits : \A j \in hits : i <= j

\* sub in s
PyIn(sub, s) == PyFind(s, sub) # -1

\* s.replace(c, "") for a one-character c
PyRemove(s, c) == SelectSeq(s, LAMBDA x : x # c)

Whitespace == {" ", "\t", "\n", "\r"}

RECURSIVE LStrip(_)
LStrip(s) == IF s # << >> /\ Head(s) \in Whitespace THEN LStrip(Tail(s)) ELSE s

RECURSIVE RStrip(_)
RStrip(s) ==
    IF s # << >> /\ s[Len(s)] \in Whitespace THEN RStrip(SubSeq(s, 1, Len(s) - 1)) ELSE s

\* s.strip()
PyStrip(s) == RStrip(LStrip(s))

\* struct.unpack("<H", two_bytes)[0]
UnpackHBigEndian(b) == 256 * b[1] + b[2]
UnpackH(b) == b[1] + 256 * b[2]

\* struct.pack("<H", 0)
PackH0 == <<0, 0>>

HexDigit == <<"0", "1", "2", "3", "4", "5", "6", "7",
              "8", "9", "a", "b", "c", "d", "e", "f">>

\* "%x" % n
RECURSIVE PyHex(_)
PyHex(n) == IF n < 16 THEN <<HexDigit[n + 1]>>
                      ELSE PyHex(n \div 16) \o <<HexDigit[(n % 16) + 1]>>

\* hashlib.md5(s).hexdigest(), as the symbolic term md5(s): injective, and
\* never equal to its argument
Md5Hex(s) == <<"md5(">> \o s \o <<")">>

\* ------------------------------------------------------------------------
\* ParseSMBIOSTable: pure parts
\* ------------------------------------------------------------------------

\* formatted_len = struct.unpack("<B", self.SMBIOSTableData[1])[0]
FormattedLen(d) == d[2]

\* handle = struct.unpack("<H", self.SMBIOSTableData[2:4])[0]
HandleOf(d) == UnpackH(PySlice(d, 2, 4))

\* unformatted_len = self.SMBIOSTableData[formatted_len:].find(struct.pack("<H", 0)) + 2
UnformattedLenOffByOne(d) == PyFind(PyFrom(d, FormattedLen(d)), PackH0) + 1
UnformattedLen(d) == PyFind(PyFrom(d, FormattedLen(d)), PackH0) + 2

\* formatted_len + unformatted_len, the number of bytes one iteration consumes
StructLen(d) == FormattedLen(d) + UnformattedLen(d)

\* self.SMBIOSTableData[formatted_len + unformatted_len:], the bytes one
\* iteration leaves to walk
AfterIteration(d) == PyFrom(d, StructLen(d))

\* self.table_data[handle] = value
DictSet(dict, key, value) ==
    [k \in DOMAIN dict \cup {key} |-> IF k = key THEN value ELSE dict[k]]

EmptyDict == [k \in {} |-> 0]

\* The reads of parse_type1 in source order: key, struct format, 0-based offset
Type1Mandatory ==
    << [key |-> "Length",        fmt |-> "B",   at |-> 1],
       [key |-> "Handle",        fmt |-> "H",   at |-> 2],
       [key |-> "Manufacturer",  fmt |-> "B",   at |-> 5],
       [key |-> "Product Name",  fmt |-> "B",   at |-> 6],
       [key |-> "Version",       fmt |-> "B",   at |-> 7],
       [key |-> "Serial Number", fmt |-> "B",   at |-> 8],
       [key |-> "UUID",          fmt |-> "16B", at |-> 8],
       [key |-> "Wake-up Type",  fmt |-> "B",   at |-> 25] >>

\* The reads inside try: ... except IndexError: pass
Type1Optional ==
    << [key |-> "SKU Number",    fmt |-> "B",   at |-> 26],
       [key |-> "Family",        fmt |-> "B",   at |-> 27] >>

FmtSize(fmt) == CASE fmt = "B" -> 1 [] fmt = "H" -> 2 [] fmt = "16B" -> 16

\* The exception one read raises on raw, "" when it succeeds: raw[i] raises
\* IndexError past the end, struct.unpack raises struct.error on a short slice
ReadError(raw, f) ==
    IF f.fmt = "B"
    THEN IF f.at >= Len(raw) THEN "IndexError" ELSE ""
    ELSE IF Len(PySlice(raw, f.at, f.at + FmtSize(f.fmt))) # FmtSize(f.fmt)
         THEN "struct.error" ELSE ""

\* The value one successful read stores
ReadValue(raw, f) ==
    CASE f.fmt = "B"   -> raw[f.at + 1]
      [] f.fmt = "H"   -> UnpackH(PySlice(raw, f.at, f.at + 2))
      [] f.fmt = "16B" -> PySlice(raw, f.at, f.at + 16)

\* Number of leading reads of fields that succeed
OkPrefix(raw, fields) ==
    LET bad == { i \in 1..Len(fields) : ReadError(raw, fields[i]) # "" }
    IN  IF bad = {} THEN Len(fields)
        ELSE (CHOOSE i \in bad : \A j \in bad : i <= j) - 1

\* The exception parse_type1 raises on raw, "" when it returns normally
Type1Error(raw) ==
    LET n == OkPrefix(raw, Type1Mandatory)
    IN  IF n = Len(Type1Mandatory) THEN "" ELSE ReadError(raw, Type1Mandatory[n + 1])

\* The source line of that exception: the mandatory reads are lines 212..219
Type1ErrorLine(raw) == 212 + OkPrefix(raw, Type1Mandatory)

\* self.type1_data as parse_type1 leaves it (also when it raises part-way)
Type1Data(raw) ==
    LET n    == OkPrefix(raw, Type1Mandatory)
        m    == IF n = Len(Type1Mandatory) THEN OkPrefix(raw, Type1Optional) ELSE 0
        done == SubSeq(Type1Mandatory, 1, n) \o SubSeq(Type1Optional, 1, m)
        keys == { done[i].key : i \in 1..Len(done) }
    IN  [k \in keys |->
            ReadValue(raw, done[CHOOSE i \in 1..Len(done) : done[i].key = k])]

\* "%x%x%x%x-%x%x-%x%x-%x%x-%x%x%x%x%x%x" % (raw_uuid[0], ..., raw_uuid[15])
FormatUUID(u) ==
    PyHex(u[1]) \o PyHex(u[2]) \o PyHex(u[3]) \o PyHex(u[4]) \o <<"-">> \o
    PyHex(u[5]) \o PyHex(u[6]) \o <<"-">> \o
    PyHex(u[7]) \o PyHex(u[8]) \o <<"-">> \o
    PyHex(u[9]) \o PyHex(u[10]) \o <<"-">> \o
    PyHex(u[11]) \o PyHex(u[12]) \o PyHex(u[13]) \o
    PyHex(u[14]) \o PyHex(u[15]) \o PyHex(u[16])

\* ------------------------------------------------------------------------
\* GetSysUUID: pure parts
\* ------------------------------------------------------------------------

\* An attribute that may not exist: << >> when unset, <<v>> when set to v
Unset == << >>
Set(v) == <<v>>

\* Keys of self.supported_platforms
SupportedPlatforms == {"linux2", "darwin", "win32"}

\* The loop of _get_linux_uuid over ret, from the attribute value cur
RECURSIVE LinuxScan(_, _)
LinuxScan(ret, cur) ==
    IF ret = << >> THEN cur
    ELSE LET line == Head(ret)
             bare == PyRemove(line, " ")
             pos  == PyFind(bare, <<":">>)
         IN  IF PyIn(<<"U", "U", "I", "D">>, line)
             THEN LinuxScan(Tail(ret), Set(PyStrip(PyFrom(bare, pos + 1))))
             ELSE LinuxScan(Tail(ret), cur)

PlatformUUID == <<"P", "l", "a", "t", "f", "o", "r", "m", "U", "U", "I", "D">>

\* The loop of _get_darwin_uuid over ret, from the attribute value cur
RECURSIVE DarwinScan(_, _)
DarwinScan(ret, cur) ==
    IF ret = << >> THEN cur
    ELSE LET line == Head(ret)
             bare == PyRemove(PyRemove(line, " "), "\"")
             pos  == PyFind(bare, <<"=">>)
         IN  IF PyIn(PlatformUUID, line)
             THEN DarwinScan(Tail(ret), Set(PyStrip(PyFrom(bare, pos + 1))))
             ELSE DarwinScan(Tail(ret), cur)

\* if not self.uuid: raise GetUUIDError("Could not find UUID")
\* Reading a missing attribute raises AttributeError; the raise statement
\* names a class the module never defines, so it raises NameError itself.
LinuxCheck(attr) ==
    IF attr = Unset THEN "AttributeError"
    ELSE IF attr[1] = << >> THEN "NameError" ELSE ""

\* __call__ after the platform function returned: the value it stores in
\* self.uuid and returns
Anonymise(anon, u) == IF anon THEN Md5Hex(u) ELSE u

\* ------------------------------------------------------------------------
\* How a call ends, as its caller sees it
\* ------------------------------------------------------------------------
\* kind, the exception's class and message, and the source line it left from
NoOutcome == [kind |-> "none",   exc |-> "", msg |-> "", at |-> 0]
Returned  == [kind |-> "return", exc |-> "", msg |-> "", at |-> 0]
Raised(exc, msg, at) == [kind |-> "raise", exc |-> exc, msg |-> msg, at |-> at]

\* raise GetUUIDError(msg) on line at.  No GetUUIDError is defined or
\* imported anywhere in the module, so evaluating the name raises NameError
\* and msg never reaches the caller.
RaiseGetUUIDError(msg, at) ==
    Raised("NameError", "global name 'GetUUIDError' is not defined", at)

\* An exception exc raised on line at while who is running the parser:
\* under GetSysUUID.__call__ the except KeyError clause (line 47) turns a
\* KeyError into raise GetUUIDError("Unsupported Platform") on line 48; all
\* else propagates.
Propagate(who, exc, at) ==
    IF who = "GetSysUUID" /\ exc = "KeyError"
    THEN RaiseGetUUIDError("Unsupported Platform", 48)
    ELSE Raised(exc, "", at)

\* ------------------------------------------------------------------------
\* Inputs: what the environment hands to the program
\* ------------------------------------------------------------------------
Platforms == SupportedPlatforms \cup {"cygwin"}

\* Lines of dmidecode --type 1
DmidecodeLines ==
    { <<"\t", "U", "U", "I", "D", ":", " ", "4", "C", "-", "0", "1", "\n">>,
      <<"\t", "U", "U", "I", "D", ":", "\n">>,
      <<"\t", "S", "K", "U", ":", " ", "1", "\n">> }

\* Lines of ioreg -rd1 -cIOPlatformExpertDevice
IoregLines ==
    { <<" ", "\"", "I", "O", "P", "l", "a", "t", "f", "o", "r", "m", "U", "U", "I", "D",
        "\"", " ", "=", " ", "\"", "7", "F", "\"", "\n">>,
      <<" ", "\"", "m", "o", "d", "e", "l", "\"", " ", "=", " ", "<", "\"", "M", "\"",
        ">", "\n">> }

\* All sequences over S of length at most n
SeqsUpTo(S, n) == UNION { [1..k -> S] : k \in 0..n }

RECURSIVE Concat(_)
Concat(ss) == IF ss = << >> THEN << >> ELSE Head(ss) \o Concat(Tail(ss))

\* Bytes of arbitrary tables: 0 (terminator, length 0), 1 (handle 1,
\* length 1) and 5 (a formatted length that a short table cuts off)
RawBytes == {0, 1, 5}

\* Handles as the two bytes in the table: 1, 2 and 256
HandleBytes == { <<1, 0>>, <<2, 0>>, <<0, 1>> }

\* String sections: no string, one string
StringSections == { <<0, 0>>, <<65, 0, 0>> }

\* Small well-formed structures: formatted length 4, or 5 with one fixed byte
SmallStructs ==
    { <<0, 4>> \o h \o s : h \in HandleBytes, s \in StringSections }
    \cup
    { <<2, 5>> \o h \o <<f>> \o s :
        h \in HandleBytes, f \in {0, 9}, s \in StringSections }

\* UUID values: the spec's example, one with a zero and a small byte, one
\* with no byte below 0x10
UUIDs ==
    { <<0, 17, 34, 51, 68, 85, 102, 119, 136, 153, 170, 187, 204, 221, 238, 255>>,
      <<16, 32, 5, 48, 64, 80, 96, 112, 128, 144, 160, 176, 192, 208, 224, 240>>,
      <<31, 46, 61, 76, 91, 106, 121, 136, 151, 166, 181, 196, 211, 226, 241, 16>> }

\* A System Information structure of formatted length len: string references
\* 1..4 at offsets 4..7, the UUID at 8..23, wake-up type 6 at 24, SKU 5 at
\* 25, family 2 at 26, cut to len bytes, then the string section
Type1Struct(len, h, u, s) ==
    SubSeq(<<1, len>> \o h \o <<1, 2, 3, 4>> \o u \o <<6, 5, 2>>, 1, len) \o s

Type1Lens == {8, 22, 23, 24, 25, 26, 27}

Type1Structs ==
    { Type1Struct(len, h, u, s) :
        len \in Type1Lens, h \in {<<1, 0>>, <<2, 0>>}, u \in UUIDs,
        s \in StringSections }

\* A BIOS Information structure that may precede System Information
BiosStruct == <<0, 5, 0, 0, 1, 65, 0, 0>>

\* Tables as lists of structures: up to MaxStructs small ones, or a Type 1
\* structure alone or after a BIOS structure
StructLists ==
    (SeqsUpTo(SmallStructs, MaxStructs) \ {<< >>})
    \cup { <<t>> : t \in Type1Structs }
    \cup { <<BiosStruct, t>> : t \in Type1Structs }

\* Arbitrary tables, well-formed or not
RawTables == SeqsUpTo(RawBytes, MaxLen)

\* The 8-byte header GetSystemFirmwareTable puts before the table
FirmwareHeader(t) == <<0, 2, 6, 0, Len(t) % 256, (Len(t) \div 256) % 256, 0, 0>>

\* FirmwareTableBuf.raw after the call: header and table, then the NUL that
\* ctypes.create_string_buffer("\000" * bios_size) appends to its initialiser
FirmwareRaw(t) == FirmwareHeader(t) \o t \o <<0>>

\* ------------------------------------------------------------------------
\* State
\* ------------------------------------------------------------------------
VARIABLES
    platform,         \* sys.platform
    caller,           \* the object the program drives: "GetSysUUID" or "ParseSMBIOSTable"
    structs,          \* the structures the machine's table was built from, << >> if arbitrary
    table,            \* the machine's SMBIOS structure table
    p_anonymous,      \* GetSysUUID.p_anonymous
    uuid,             \* GetSysUUID.uuid, Unset until a platform function assigns it
    ret,              \* ret, the lines read from the last command
    SMBIOSTableData,  \* ParseSMBIOSTable.SMBIOSTableData, the bytes still to walk
    table_data,       \* ParseSMBIOSTable.table_data, handle -> bytes
    type1_data,       \* ParseSMBIOSTable.type1_data, field name -> value
    pc,               \* "idle", or the step of the running call
    outcome,          \* how the last call ended, NoOutcome before and during a call
    calls             \* calls started so far

vars == <<platform, caller, structs, table, p_anonymous, uuid, ret,
          SMBIOSTableData, table_data, type1_data, pc, outcome, calls>>

env    == <<platform, caller, structs, table, p_anonymous>>
parser == <<SMBIOSTableData, table_data, type1_data>>

\* GetSysUUID.__init__ and the machine the program runs on.  struct is
\* imported only on win32, so only there can ParseSMBIOSTable be driven.
Init ==
    /\ platform \in Platforms
    /\ caller \in {"GetSysUUID", "ParseSMBIOSTable"}
    /\ p_anonymous \in BOOLEAN
    /\ caller = "ParseSMBIOSTable" => platform = "win32" /\ p_anonymous = FALSE
    /\ IF platform = "win32"
       THEN \/ structs \in StructLists /\ table = Concat(structs)
            \/ structs = << >> /\ table \in RawTables
       ELSE structs = << >> /\ table = << >>
    /\ uuid = Unset
    /\ ret = << >>
    /\ SMBIOSTableData = << >>
    /\ table_data = EmptyDict
    /\ type1_data = EmptyDict
    /\ pc = "idle"
    /\ outcome = NoOutcome
    /\ calls = 0

CanCall(who) == pc = "idle" /\ caller = who /\ calls < MaxCalls

\* __call__ on a platform that is no key of supported_platforms
CallUnsupported ==
    /\ CanCall("GetSysUUID")
    /\ platform \notin SupportedPlatforms
    /\ outcome' = RaiseGetUUIDError("Unsupported Platform", 48)
    /\ calls' = calls + 1
    /\ UNCHANGED <<env, parser, uuid, ret, pc>>

\* __call__ on linux2: _get_linux_uuid, then the rest of __call__
CallLinux ==
    /\ CanCall("GetSysUUID")
    /\ platform = "linux2"
    /\ calls' = calls + 1
    /\ \E popen_ok \in BOOLEAN, out \in SeqsUpTo(DmidecodeLines, MaxLines) :
          IF ~popen_ok
          THEN /\ outcome' = RaiseGetUUIDError("Bad command passed", 71)
               /\ UNCHANGED <<uuid, ret>>
          ELSE LET attr == LinuxScan(out, uuid)
                   err  == LinuxCheck(attr)
               IN  /\ ret' = out
                   /\ IF err = "AttributeError"
                      THEN /\ outcome' = Raised(err, "", 80)
                           /\ uuid' = attr
                      ELSE IF err = "NameError"
                      THEN /\ outcome' = RaiseGetUUIDError("Could not find UUID", 81)
                           /\ uuid' = attr
                      ELSE /\ outcome' = Returned
                           /\ uuid' = Set(Anonymise(p_anonymous, attr[1]))
    /\ UNCHANGED <<env, parser, pc>>

\* __call__ on darwin: _get_darwin_uuid, then the rest of __call__
CallDarwin ==
    /\ CanCall("GetSysUUID")
    /\ platform = "darwin"
    /\ calls' = calls + 1
    /\ \E popen_ok \in BOOLEAN, out \in SeqsUpTo(IoregLines, MaxLines) :
          IF ~popen_ok
          THEN /\ outcome' = RaiseGetUUIDError("Bad command passed", 94)
               /\ UNCHANGED <<uuid, ret>>
          ELSE LET attr == DarwinScan(out, uuid)
               IN  /\ ret' = out
                   /\ IF attr = Unset
                      THEN \* self.uuid is read on line 52 or on line 55
                           /\ outcome' = Raised("AttributeError", "",
                                                IF p_anonymous THEN 52 ELSE 55)
                           /\ uuid' = attr
                      ELSE /\ outcome' = Returned
                           /\ uuid' = Set(Anonymise(p_anonymous, attr[1]))
    /\ UNCHANGED <<env, parser, pc>>

\* __call__ on win32 up to parse_bios(): fetch the firmware table, drop the
\* header, construct the parser
CallWin32 ==
    /\ CanCall("GetSysUUID")
    /\ platform = "win32"
    /\ calls' = calls + 1
    /\ \E last_error_ok \in BOOLEAN :
          IF ~last_error_ok
          THEN /\ outcome' = RaiseGetUUIDError("FormatError", 134)
               /\ UNCHANGED <<parser, pc>>
          ELSE /\ SMBIOSTableData' = PyFrom(FirmwareRaw(table), 8)
               /\ table_data' = EmptyDict
               /\ type1_data' = EmptyDict
               /\ pc' = "walk"
               /\ outcome' = NoOutcome
    /\ UNCHANGED <<env, uuid, ret>>

\* ParseSMBIOSTable(table)() up to walk_structure: __init__
RunParser ==
    /\ CanCall("ParseSMBIOSTable")
    /\ calls' = calls + 1
    /\ SMBIOSTableData' = table
    /\ table_data' = EmptyDict
    /\ type1_data' = EmptyDict
    /\ pc' = "walk"
    /\ outcome' = NoOutcome
    /\ UNCHANGED <<env, uuid, ret>>

\* One iteration of the loop of walk_structure
WalkStep ==
    /\ pc = "walk"
    /\ LET d == SMBIOSTableData
       IN  IF Len(d) < 2
           THEN \* IndexError on d[1]: break
                /\ pc' = "parse"
                /\ UNCHANGED <<parser, outcome>>
           ELSE IF Len(PySlice(d, 2, 4)) # 2
           THEN \* struct.unpack("<H", ...) on fewer than 2 bytes
                /\ pc' = "idle"
                /\ outcome' = Propagate(caller, "struct.error", 195)
                /\ UNCHANGED parser
           ELSE /\ table_data' = DictSet(table_data, HandleOf(d), PySlice(d, 0, StructLen(d)))
                /\ SMBIOSTableData' = AfterIteration(d)
                /\ UNCHANGED <<type1_data, pc, outcome>>
    /\ UNCHANGED <<env, uuid, ret, calls>>

\* parse_type1, and the return of ParseSMBIOSTable.__call__
ParseType1 ==
    /\ pc = "parse"
    /\ IF 1 \notin DOMAIN table_data
       THEN /\ pc' = "idle"
            /\ outcome' = Propagate(caller, "KeyError", 209)
            /\ UNCHANGED type1_data
       ELSE LET raw_data == table_data[1]
                err      == Type1Error(raw_data)
            IN  /\ type1_data' = Type1Data(raw_data)
                /\ IF err # ""
                   THEN pc' = "idle" /\ outcome' = Propagate(caller, err, Type1ErrorLine(raw_data))
                   ELSE IF caller = "GetSysUUID"
                   THEN pc' = "format" /\ UNCHANGED outcome
                   ELSE pc' = "idle" /\ outcome' = Returned
    /\ UNCHANGED <<env, uuid, ret, SMBIOSTableData, table_data, calls>>

\* The end of _get_win32_uuid (format the UUID) and the rest of __call__
FormatAndReturn ==
    /\ pc = "format"
    /\ uuid' = Set(Anonymise(p_anonymous, FormatUUID(type1_data["UUID"])))
    /\ outcome' = Returned
    /\ pc' = "idle"
    /\ UNCHANGED <<env, parser, ret, calls>>

Next ==
    \/ CallUnsupported
    \/ CallLinux
    \/ CallDarwin
    \/ CallWin32
    \/ RunParser
    \/ WalkStep
    \/ ParseType1
    \/ FormatAndReturn

Spec == Init /\ [][Next]_vars

TypeOK ==
    /\ platform \in Platforms
    /\ pc \in {"idle", "walk", "parse", "format"}
    /\ calls \in 0..MaxCalls
    /\ Len(uuid) <= 1

\* ------------------------------------------------------------------------
\* Vocabulary of the properties
\* ------------------------------------------------------------------------

\* The handle a structure carries in bytes 2-3, little-endian
StructHandle(st) == st[3] + 256 * st[4]

\* The table is a concatenation of well-formed structures with pairwise
\* distinct handles
WellFormedTable ==
    /\ structs # << >>
    /\ \A i \in 1..Len(structs) : structs[i][2] >= 4
    /\ \A i, j \in 1..Len(structs) :
          i # j => StructHandle(structs[i]) # StructHandle(structs[j])

\* walk_structure has returned and its table is still there
Walked == pc \in {"parse", "format"}

\* parse_type1 has returned normally
Decoded ==
    \/ pc = "format"
    \/ caller = "ParseSMBIOSTable" /\ pc = "idle" /\ outcome = Returned

\* The walk is at a structure whose header can be read
AtStructure == pc = "walk" /\ Len(SMBIOSTableData) >= 2

\* The call in progress ends in this step with an exception.  The error
\* outcomes the properties speak of (MalformedTable, TruncatedStructure,
\* HandleNotFound) are taken to be whatever exception the code raises there.
EndsInError == pc' = "idle" /\ outcome'.kind = "raise"

\* A byte as exactly two lowercase hexadecimal digits
TwoHex(b) == <<HexDigit[(b \div 16) + 1], HexDigit[(b % 16) + 1]>>

\* ------------------------------------------------------------------------
\* Properties
\* ------------------------------------------------------------------------

\* C1: walking a table that concatenates N >= 1 well-formed structures with
\* pairwise distinct handles raises nothing and leaves exactly N entries,
\* keyed by those handles, each byte-identical to its structure.
C1_RoundTrip ==
    WellFormedTable =>
       /\ ~(pc = "idle" /\ outcome.kind = "raise" /\ outcome.at = 195)
       /\ Walked =>
             /\ DOMAIN table_data = { StructHandle(structs[i]) : i \in 1..Len(structs) }
             /\ Cardinality(DOMAIN table_data) = Len(structs)
             /\ \A i \in 1..Len(structs) :
                   table_data[StructHandle(structs[i])] = structs[i]

\* Two structures with distinct handles, one of them 256, have been walked
C1_Witness ==
    /\ WellFormedTable
    /\ pc = "parse"
    /\ Len(structs) = 2
    /\ 256 \in DOMAIN table_data
    /\ Cardinality(DOMAIN table_data) = 2

\* C2: the UUID string returned on win32 renders each of the 16 bytes as
\* exactly two lowercase hexadecimal digits, 32 digits in all.
C2_TwoDigitsPerByte ==
    (caller = "GetSysUUID" /\ platform = "win32" /\ ~p_anonymous
        /\ pc = "idle" /\ outcome = Returned)
    => LET u == type1_data["UUID"]
       IN  /\ PyRemove(uuid[1], "-") = Concat([i \in 1..16 |-> TwoHex(u[i])])
           /\ Len(PyRemove(uuid[1], "-")) = 32

\* C3: a decoded record holds length from offset 1, handle from 2-3,
\* manufacturer, product name, version and serial number references from 4,
\* 5, 6 and 7, the UUID from 8-23 and wake-up type from 24.
C3_FieldOffsets ==
    Decoded =>
       LET raw == table_data[1]
       IN  /\ type1_data["Length"] = raw[1 + 1]
           /\ type1_data["Handle"] = raw[2 + 1] + 256 * raw[3 + 1]
           /\ type1_data["Manufacturer"] = raw[4 + 1]
           /\ type1_data["Product Name"] = raw[5 + 1]
           /\ type1_data["Version"] = raw[6 + 1]
           /\ type1_data["Serial Number"] = raw[7 + 1]
           /\ type1_data["UUID"] = SubSeq(raw, 8 + 1, 23 + 1)
           /\ type1_data["Wake-up Type"] = raw[24 + 1]

\* C4: in a decoded record SKU number is set, to the byte at offset 25,
\* exactly when the declared formatted length covers offset 25, and family,
\* to the byte at offset 26, exactly when it covers offset 26.
C4_OptionalFields ==
    Decoded =>
       LET raw == table_data[1]
           len == raw[2]
       IN  /\ ("SKU Number" \in DOMAIN type1_data) <=> (len >= 26)
           /\ ("Family" \in DOMAIN type1_data) <=> (len >= 27)
           /\ "SKU Number" \in DOMAIN type1_data => type1_data["SKU Number"] = raw[25 + 1]
           /\ "Family" \in DOMAIN type1_data => type1_data["Family"] = raw[26 + 1]

\* C5: when fewer bytes remain at the cursor than the declared formatted
\* length, the walk ends with an error (MalformedTable) and records nothing.
C5_TruncatedIsMalformed ==
    [][ (AtStructure /\ Len(SMBIOSTableData) < FormattedLen(SMBIOSTableData))
            => (EndsInError /\ table_data' = table_data) ]_vars

\* C6: when no 0x00 0x00 occurs at or after the declared formatted length,
\* the walk ends with an error (MalformedTable), records nothing and walks
\* no further.
C6_UnterminatedIsMalformed ==
    [][ (AtStructure
            /\ ~PyIn(PackH0, PyFrom(SMBIOSTableData, FormattedLen(SMBIOSTableData))))
            => (EndsInError /\ table_data' = table_data) ]_vars

\* C7: parse_type1 succeeds exactly on structures of at least 25 bytes, and
\* ends with an error (TruncatedStructure) on shorter ones.
C7_MinimumLength ==
    [][ (pc = "parse" /\ 1 \in DOMAIN table_data)
            => IF Len(table_data[1]) >= 25 THEN Decoded' ELSE EndsInError ]_vars

\* C8: when the walked table has no structure with handle 1, __call__ ends
\* with an error (HandleNotFound) that its caller can tell from the
\* Unsupported Platform one, and no UUID is produced.
C8_HandleNotFound ==
    [][ (pc = "parse" /\ caller = "GetSysUUID" /\ 1 \notin DOMAIN table_data)
            => /\ EndsInError
               /\ outcome' # RaiseGetUUIDError("Unsupported Platform", 48)
               /\ uuid' = uuid ]_vars

\* C9: a call of __call__ on linux2 whose dmidecode output has no line with
\* UUID in it ends at the statement raise GetUUIDError("Could not find
\* UUID") on line 81, on the first call and on every later one.
C9_NoUUIDLine ==
    (platform = "linux2" /\ calls > 0 /\ outcome.at # 71
        /\ \A i \in 1..Len(ret) : ~PyIn(<<"U", "U", "I", "D">>, ret[i]))
    => (outcome.kind = "raise" /\ outcome.at = 81)

\* C10: the walk terminates on every table: an iteration at a structure
\* always leaves fewer bytes than it found, so no iteration can leave the
\* state as it is; every step that stays in the loop has shortened the
\* remaining buffer; and the loop is left once fewer than 2 bytes remain.
C10_WalkTerminates ==
    /\ []((AtStructure /\ Len(SMBIOSTableData) >= 4)
             => Len(AfterIteration(SMBIOSTableData)) < Len(SMBIOSTableData))
    /\ [][ pc = "walk" =>
             IF Len(SMBIOSTableData) < 2
             THEN pc' = "parse"
             ELSE pc' = "walk" => Len(SMBIOSTableData') < Len(SMBIOSTableData) ]_vars

\* A walk of an arbitrary table that declares formatted length 0 has ended
C10_Witness ==
    /\ structs = << >>
    /\ Len(table) >= 2
    /\ table[2] = 0
    /\ pc = "parse"
    /\ DOMAIN table_data # {}

====
